---- MODULE Spec2Model ----
(***************************************************************************)
(* FLAC Integrity Checker: the concurrent verification engine.             *)
(*                                                                         *)
(* Two versions of the checker are in the repository: FIC.py (v1.2.1) and  *)
(* fic.py (v1.4).  The variable `variant` says which one a behaviour is a  *)
(* run of.  The main thread runs the preflight, the discovery, the         *)
(* dispatch to a thread pool and the as_completed loop that accumulates    *)
(* the results; each pool thread runs verify_flac for one file at a time.  *)
(*                                                                         *)
(* Text is a sequence of tokens (a token is a piece of text that the       *)
(* string operations of the code never cut: a word, one white-space        *)
(* character, one digit of a checksum).                                    *)
(***************************************************************************)
EXTENDS Integers, Sequences, FiniteSets, TLC

\* ------------------------------------------------------------------ bounds
MaxFiles == 2          \* files that discovery may return
MaxRetriesArg == 0     \* fic.py: the largest --max-retries
MaxNegRetries == 2     \* fic.py: the lowest --max-retries is -MaxNegRetries
MaxEvents == 1         \* abnormal events in one run (see events)
MaxTimeoutArg == 2     \* fic.py: the largest --timeout besides the default
MaxRecompress == 2     \* recompress.py: files that os.walk may find

\* --------------------------------------------------------------- constants
MAX_THREADS == 32
MAX_RETRIES == 2
MD5_LEN == 32
\* FIC.py: seconds given to flac -t and to metaflac --show-md5sum
FLAC_VERIFY_TIMEOUT == 30
MD5_CHECK_TIMEOUT == 10
\* fic.py: the default of --timeout
DEFAULT_TIMEOUT == 30
\* exitStatus while sys.exit has not been called
NotExited == -1

\* the values of args.max_retries: argparse takes any integer for
\* --max-retries (type=int, no lower limit)
RetriesArgs == (0 - MaxNegRetries)..MaxRetriesArg

\* what multiprocessing.cpu_count() may answer; 0 stands for NotImplementedError.
\* The counts give pools of one thread and of two.
CpuCounts == {0, 1, 2, 3}

Variants == {"FIC", "fic"}
Tools == {"flac", "metaflac"}

\* -------------------------------------------------------------------- text
Whitespace == {" ", "\n", "\t", "\r"}
NoneVal == <<"<None>">>

RECURSIVE LStrip(_)
LStrip(s) == IF s # <<>> /\ Head(s) \in Whitespace THEN LStrip(Tail(s)) ELSE s

RECURSIVE RStrip(_)
RStrip(s) ==
    IF s # <<>> /\ s[Len(s)] \in Whitespace
    THEN RStrip(SubSeq(s, 1, Len(s) - 1))
    ELSE s

\* str.strip()
Strip(s) == RStrip(LStrip(s))

\* str.startswith(prefix)
StartsWith(s, prefix) ==
    /\ Len(prefix) <= Len(s)
    /\ SubSeq(s, 1, Len(prefix)) = prefix

\* str.splitlines(): the lines without their line ends; a final line end
\* opens no further line
RECURSIVE SplitLinesFrom(_, _)
SplitLinesFrom(s, cur) ==
    IF s = <<>>
    THEN IF cur = <<>> THEN <<>> ELSE <<cur>>
    ELSE IF Head(s) = "\n"
         THEN <<cur>> \o SplitLinesFrom(Tail(s), <<>>)
         ELSE SplitLinesFrom(Tail(s), Append(cur, Head(s)))

SplitLines(s) == SplitLinesFrom(s, <<>>)

\* '\n'.join(lines)
RECURSIVE JoinLines(_)
JoinLines(lines) ==
    IF lines = <<>> THEN <<>>
    ELSE IF Len(lines) = 1 THEN Head(lines)
    ELSE Head(lines) \o <<"\n">> \o JoinLines(Tail(lines))

RECURSIVE Repeat(_, _)
Repeat(c, n) == IF n <= 0 THEN <<>> ELSE <<c>> \o Repeat(c, n - 1)

\* '0'*32
ZeroMd5 == Repeat("0", MD5_LEN)

ignore_prefixes ==
    { <<"flac">>,
      <<"Copyright">>,
      <<"welcome", " ", "to", " ", "redistribute">>,
      <<"This", " ", "program", " ", "is", " ", "free", " ", "software">>,
      <<"For", " ", "more", " ", "details">> }

\* a filter that drops the empty lines only
KeepLineNonEmpty(line) == Strip(line) # <<>>

KeepLine(line) ==
    /\ Strip(line) # <<>>
    /\ ~ \E p \in ignore_prefixes : StartsWith(Strip(line), p)

RECURSIVE CleanLines(_)
CleanLines(lines) ==
    IF lines = <<>> THEN <<>>
    ELSE IF KeepLine(Head(lines))
         THEN <<Strip(Head(lines))>> \o CleanLines(Tail(lines))
         ELSE CleanLines(Tail(lines))

clean_flac_error(error) ==
    IF error = <<>> THEN <<>> ELSE JoinLines(CleanLines(SplitLines(error)))


\* ------------------------------------------------------------------- state
VARIABLES
    variant,        \* which version of the checker runs
    max_retries,    \* FIC.py: MAX_RETRIES; fic.py: args.max_retries
    toolPresent,    \* tool -> whether the executable is on the PATH now
    phase,          \* position of the main thread
    nfiles,         \* len(flac_files); the files are 1..nfiles, in list order
    thread_count,   \* size of the pool
    task,           \* file -> the verify_flac call for it (see NewTask)
    future,         \* file -> the task's future
    results,        \* the three counters
    failed_files,   \* list of <<file, error>>
    no_md5_files,   \* list of files
    yielded,        \* futures that as_completed has handed to the loop
    finished_futures, \* as_completed's waiter: the futures that finished since
                    \* the call of as_completed, not yet handed out, oldest first
    summary,        \* whether print_summary has run
    interrupted,    \* whether the handler of KeyboardInterrupt has printed
                    \* that the run was interrupted
    exitStatus,     \* status given to sys.exit, NotExited before
    events,         \* abnormal events so far: an unexpected exception raised in
                    \* a call, a tool taken away, the interrupt
    preflight,      \* what check_dependencies found, "pending" before
    finished,       \* the futures that were finished when as_completed was
                    \* called and that it has not handed out yet, in the
                    \* order in which they finished
    timeout,        \* FIC.py: FLAC_VERIFY_TIMEOUT; fic.py: args.timeout
    watch,          \* one call of verify_flac by the clock (see NoWatch)
    tracker,        \* recompress.py: the ProgressTracker of the run
    rjob,           \* recompress.py: file -> the recompress_flac call for it
    rmain           \* recompress.py: main at the pool, and its stdout

vars == <<variant, max_retries, toolPresent, phase, nfiles, thread_count, task,
          future, results, failed_files, no_md5_files, yielded,
          finished_futures, summary, interrupted, exitStatus, events,
          preflight, finished, timeout, watch, tracker, rjob, rmain>>

\* the variables of the run of the checker without its configuration
verifyVars == <<toolPresent, phase, nfiles, thread_count, task, future,
                results, failed_files, no_md5_files, yielded,
                finished_futures, summary, interrupted, exitStatus, events,
                preflight, finished>>
\* what the clock sees of one call, and the run of recompress.py: not part of
\* a run of the checker
timingVars == <<timeout, watch>>
recompressVars == <<tracker, rjob, rmain>>

configVars == <<variant, max_retries>>
mainVars == <<phase, nfiles, thread_count, results, failed_files, no_md5_files,
              yielded, summary, interrupted, exitStatus, preflight>>
\* mainVars are what a step of a call leaves alone; a call that returns is
\* added to finished_futures

Files == 1..nfiles

\* a verify_flac call that has not begun: its position, its local variables
\* attempt and last_error, and what it has done so far (iterations of the
\* retry loop begun, calls of run_command for flac and for metaflac, the
\* length of its last time.sleep and of all of them, in half seconds)
NewTask ==
    [pc |-> "new", attempt |-> 0, last_error |-> <<>>,
     attempts |-> 0, flacCalls |-> 0, mdCalls |-> 0,
     sleep |-> 0, backoff |-> 0]

\* a future that has no result yet
Pending ==
    [state |-> "pending", file_path |-> 0, status |-> "none",
     error |-> NoneVal, md5 |-> NoneVal, exc |-> "none"]

\* VerificationResult(file_path, status, error, md5) set as a future's result
VerificationResult(file_path, status, error, md5) ==
    [state |-> "result", file_path |-> file_path, status |-> status,
     error |-> error, md5 |-> md5, exc |-> "none"]

\* a future whose call raised an exception of the given kind
Raised(kind) ==
    [state |-> "exception", file_path |-> 0, status |-> "none",
     error |-> NoneVal, md5 |-> NoneVal, exc |-> kind]

\* kinds of unexpected exception: an OSError or subprocess.SubprocessError,
\* or any other Exception
FaultKinds == {"os", "other"}

\* str(e)
ExcText(kind) == <<kind, " ", "fault">>

\* the clock before a call of verify_flac: the position of the call, the
\* timeout given to each of the two invocations and the time each has run,
\* in thirds of a second
NoWatch ==
    [pc |-> "idle", flacLimit |-> 0, flacTime |-> 0,
     md5Limit |-> 0, md5Time |-> 0]

\* no ProgressTracker: recompress.py does not run
NoTracker == [total |-> 0, progress |-> 0, success |-> 0, failed |-> 0,
              errors |-> <<>>]
\* main of recompress.py before it reaches the pool
NoMain == [pc |-> "idle", max_threads |-> 0, awaited |-> 0, stdout |-> "open"]

\* ------------------------------------------------------------- main thread
Init ==
    /\ variant \in Variants
    /\ max_retries \in IF variant = "FIC" THEN {MAX_RETRIES}
                       ELSE RetriesArgs
    /\ toolPresent \in [Tools -> BOOLEAN]
    /\ phase = "preflight"
    /\ nfiles = 0
    /\ thread_count = 0
    /\ task = <<>>
    /\ future = <<>>
    /\ results = [passed |-> 0, failed |-> 0, no_md5 |-> 0]
    /\ failed_files = <<>>
    /\ no_md5_files = <<>>
    /\ yielded = {}
    /\ finished_futures = <<>>
    /\ summary = FALSE
    /\ interrupted = FALSE
    /\ exitStatus = NotExited
    /\ events = 0
    /\ preflight = "pending"
    /\ finished = <<>>
    /\ timeout = IF variant = "FIC" THEN FLAC_VERIFY_TIMEOUT ELSE DEFAULT_TIMEOUT
    /\ watch = NoWatch
    /\ tracker = NoTracker
    /\ rjob = <<>>
    /\ rmain = NoMain

\* check_dependencies(): the required tools that shutil.which does not find
MissingTools == {t \in Tools : ~toolPresent[t]}

\* a preflight that reports the missing tools and goes on
CheckDependenciesWarnOnly ==
    /\ phase = "preflight"
    /\ preflight' = IF MissingTools = {} THEN "ok"
                    ELSE IF "flac" \in MissingTools THEN "flac missing"
                    ELSE "metaflac missing"
    /\ phase' = "discover"
    /\ UNCHANGED <<configVars, timingVars, recompressVars,
                   interrupted, toolPresent, nfiles, thread_count, results,
                   failed_files, no_md5_files, yielded, finished_futures,
                   summary, exitStatus, events, task, future, finished>>

\* main: if not check_dependencies(): sys.exit(1)
CheckDependencies ==
    /\ phase = "preflight"
    /\ preflight' = IF MissingTools = {} THEN "ok"
                    ELSE IF "flac" \in MissingTools THEN "flac missing"
                    ELSE "metaflac missing"
    /\ IF MissingTools = {}
       THEN /\ phase' = "discover"
            /\ exitStatus' = exitStatus
       ELSE /\ phase' = "exit"
            /\ exitStatus' = 1
    /\ UNCHANGED <<configVars, timingVars, recompressVars,
                   interrupted, toolPresent, nfiles, thread_count, results,
                   failed_files, no_md5_files, yielded, finished_futures,
                   summary, events, task, future, finished>>

\* main: flac_files, file_types = find_files(target_dir); no file: sys.exit(0)
FindFiles ==
    /\ phase = "discover"
    /\ \E n \in 0..MaxFiles :
        /\ nfiles' = n
        /\ task' = [f \in 1..n |-> NewTask]
        /\ future' = [f \in 1..n |-> Pending]
        /\ IF n = 0
           THEN /\ phase' = "exit"
                /\ exitStatus' = 0
           ELSE /\ phase' = "submit"
                /\ exitStatus' = exitStatus
    /\ UNCHANGED <<configVars, timingVars, recompressVars,
                   interrupted, toolPresent, thread_count, results, failed_files,
                   no_md5_files, yielded, finished_futures, summary, events,
                   preflight, finished>>

\* get_optimal_threads: cpu_count = 0 stands for NotImplementedError
get_optimal_threads(max_threads, cpu_count) ==
    IF cpu_count = 0 THEN 1
    ELSE LET scaled == (cpu_count * 3) \div 4
             atLeastOne == IF scaled > 1 THEN scaled ELSE 1
         IN  IF max_threads < atLeastOne THEN max_threads ELSE atLeastOne

\* the ceiling of the pool size: the constant MAX_THREADS in FIC.py, the
\* argument --max-threads in fic.py (type=int, default 32, any integer)
MaxThreadsArgs(v) ==
    IF v = "FIC" THEN {MAX_THREADS} ELSE {-1, 0, 1, 2, MAX_THREADS}

\* main: the pool is created and every file is submitted, in list order;
\* ThreadPoolExecutor raises ValueError for max_workers <= 0, which FIC.py
\* could not get and fic.py catches at the end of main with exit status 1
Submit ==
    /\ phase = "submit"
    /\ \E cpu \in CpuCounts, max_threads \in MaxThreadsArgs(variant) :
        thread_count' = get_optimal_threads(max_threads, cpu)
    /\ IF thread_count' <= 0
       THEN /\ phase' = "exit"
            /\ exitStatus' = 1
            /\ task' = task
       ELSE /\ phase' = "submitted"
            /\ exitStatus' = exitStatus
            /\ task' = [f \in Files |-> [task[f] EXCEPT !.pc = "queued"]]
    /\ UNCHANGED <<configVars, timingVars, recompressVars,
                   interrupted, toolPresent, nfiles, future, results,
                   failed_files, no_md5_files, yielded, finished_futures,
                   summary, events, preflight, finished>>

\* main: the call concurrent.futures.as_completed(futures), which installs
\* its waiter: from here on a future that finishes is put on finished_futures
AsCompleted ==
    /\ phase = "submitted"
    /\ phase' = "collect"
    /\ UNCHANGED <<configVars, timingVars, recompressVars,
                   interrupted, toolPresent, nfiles, thread_count, task, future,
                   results, failed_files, no_md5_files, yielded,
                   finished_futures, summary, exitStatus, events, preflight, finished>>

\* the except clause of the as_completed loop: FIC.py catches Exception,
\* fic.py catches (OSError, subprocess.SubprocessError)
MainCatches(v, kind) == v = "FIC" \/ kind = "os"

\* counters that know two kinds of result only
CountTwoKinds(res, status) ==
    IF status = "passed" THEN [res EXCEPT !.passed = @ + 1]
    ELSE IF status = "failed" THEN [res EXCEPT !.failed = @ + 1]
    ELSE res

\* counters that take every result that did not pass for a failure
CountNoMd5AsFailed(res, status) ==
    IF status = "passed" THEN [res EXCEPT !.passed = @ + 1]
    ELSE [res EXCEPT !.failed = @ + 1]

\* counters that are set to 1 instead of being incremented
CountOverwrites(res, status) ==
    IF status = "passed" THEN [res EXCEPT !.passed = 1]
    ELSE IF status = "failed" THEN [res EXCEPT !.failed = 1]
    ELSE [res EXCEPT !.no_md5 = 1]

\* counters that count nothing more once a failure has been counted
CountUntilFailure(res, status) ==
    IF res.failed > 0 THEN res
    ELSE IF status = "passed" THEN [res EXCEPT !.passed = @ + 1]
    ELSE IF status = "failed" THEN [res EXCEPT !.failed = @ + 1]
    ELSE [res EXCEPT !.no_md5 = @ + 1]

\* the counters after one more result of the given status
Count(res, status) ==
    IF status = "passed" THEN [res EXCEPT !.passed = @ + 1]
    ELSE IF status = "failed" THEN [res EXCEPT !.failed = @ + 1]
    ELSE [res EXCEPT !.no_md5 = @ + 1]

\* result.error or ""
ErrorOrEmpty(error) == IF error = NoneVal THEN <<>> ELSE error

InWaiter == {finished_futures[i] : i \in 1..Len(finished_futures)}

\* the futures that had finished when as_completed was called and that it has
\* not handed out yet: it hands them out first, in the order of a set
FinishedEarly ==
    {f \in Files \ yielded : future[f].state # "pending" /\ f \notin InWaiter}

\* an as_completed that may hand out a finished future again
NextCompletedAgain(f) ==
    \/ f \in Files /\ future[f].state # "pending" /\ f \notin InWaiter
    \/ /\ finished_futures # <<>>
       /\ f = Head(finished_futures)

\* an as_completed that hands out the newest future of the waiter first
NextCompletedNewest(f) ==
    \/ f \in FinishedEarly
    \/ /\ FinishedEarly = {}
       /\ finished_futures # <<>>
       /\ f = finished_futures[Len(finished_futures)]

\* the future as_completed hands out next: one that had finished early or,
\* after them, the oldest of the waiter
NextCompleted(f) ==
    \/ f \in FinishedEarly
    \/ /\ FinishedEarly = {}
       /\ finished_futures # <<>>
       /\ f = Head(finished_futures)

\* one iteration of: for future in as_completed(futures)
Accumulate(f) ==
    /\ phase = "collect"
    /\ NextCompleted(f)
    /\ yielded' = yielded \cup {f}
    /\ finished_futures' =
         IF f \in InWaiter THEN Tail(finished_futures) ELSE finished_futures
    /\ IF future[f].state = "result"
       THEN /\ results' = Count(results, future[f].status)
            /\ failed_files' =
                 IF future[f].status = "failed"
                 THEN Append(failed_files,
                             <<future[f].file_path, ErrorOrEmpty(future[f].error)>>)
                 ELSE failed_files
            /\ no_md5_files' =
                 IF future[f].status \notin {"passed", "failed"}
                 THEN Append(no_md5_files, future[f].file_path)
                 ELSE no_md5_files
            /\ phase' = phase
       ELSE IF MainCatches(variant, future[f].exc)
       THEN /\ results' = Count(results, "failed")
            /\ failed_files' =
                 Append(failed_files,
                        <<f, <<"Processing error: ">> \o ExcText(future[f].exc)>>)
            /\ no_md5_files' = no_md5_files
            /\ phase' = phase
       ELSE /\ phase' = "aborted"
            /\ UNCHANGED <<results, failed_files, no_md5_files>>
    /\ finished' = SelectSeq(finished, LAMBDA g : g # f)
    /\ UNCHANGED <<configVars, timingVars, recompressVars,
                   interrupted, toolPresent, nfiles, thread_count, summary,
                   exitStatus, events, task, future, preflight>>

\* a summary followed by sys.exit(0) whatever was counted
SummaryExitZero ==
    /\ phase = "collect"
    /\ yielded = Files
    /\ summary' = TRUE
    /\ phase' = "exit"
    /\ exitStatus' = 0
    /\ UNCHANGED <<configVars, timingVars, recompressVars,
                   interrupted, toolPresent, nfiles, thread_count,
                   results, failed_files, no_md5_files, yielded,
                   finished_futures, events, task, future, preflight, finished>>

\* a summary printed while futures are still to be handed out
SummaryEarly ==
    /\ phase = "collect"
    /\ summary' = TRUE
    /\ phase' = "exit"
    /\ exitStatus' = IF results.failed # 0 THEN 1 ELSE 0
    /\ UNCHANGED <<configVars, timingVars, recompressVars,
                   interrupted, toolPresent, nfiles, thread_count, results,
                   failed_files, no_md5_files, yielded, finished_futures,
                   events, task, future, preflight, finished>>

\* main: the loop is over, the pool is shut down, print_summary, sys.exit
Summary ==
    /\ phase = "collect"
    /\ yielded = Files
    /\ summary' = TRUE
    /\ phase' = "exit"
    /\ exitStatus' = IF results.failed # 0 THEN 1 ELSE 0
    /\ UNCHANGED <<configVars, timingVars, recompressVars,
                   interrupted, toolPresent, nfiles, thread_count, results,
                   failed_files, no_md5_files, yielded, finished_futures,
                   events, task, future, preflight, finished>>

\* KeyboardInterrupt in the main thread while it waits in as_completed; the
\* generator is closed and its waiter removed
Interrupt ==
    /\ phase = "collect"
    /\ events < MaxEvents
    /\ events' = events + 1
    /\ phase' = "interrupted"
    /\ finished_futures' = <<>>
    /\ finished' = <<>>
    /\ UNCHANGED <<configVars, timingVars, recompressVars,
                   interrupted, toolPresent, nfiles, thread_count, results,
                   failed_files, no_md5_files, yielded, summary, exitStatus,
                   task, future, preflight>>

\* leaving the with block as shutdown(wait=False) would: the handler runs
\* while tasks are still going
ShutdownNoWait ==
    /\ phase \in {"interrupted", "aborted"}
    /\ phase' = "exit"
    /\ exitStatus' = 1
    /\ interrupted' = (phase = "interrupted")
    /\ UNCHANGED <<configVars, timingVars, recompressVars,
                   toolPresent, nfiles, thread_count, results,
                   failed_files, no_md5_files, yielded, finished_futures,
                   summary, events, task, future, preflight, finished>>

\* leaving the with block on an exception: ThreadPoolExecutor.__exit__ is
\* shutdown(wait=True), which returns when every submitted task has run;
\* then the handler (or the interpreter, for an uncaught exception) exits 1
Shutdown ==
    /\ phase \in {"interrupted", "aborted"}
    /\ \A f \in Files : future[f].state # "pending"
    /\ phase' = "exit"
    /\ exitStatus' = 1
    /\ interrupted' = (phase = "interrupted")
    /\ UNCHANGED <<configVars, timingVars, recompressVars,
                   toolPresent, nfiles, thread_count, results,
                   failed_files, no_md5_files, yielded, finished_futures,
                   summary, events, task, future, preflight, finished>>

\* a tool is uninstalled or leaves the PATH after the preflight
ToolRemoved(t) ==
    /\ phase = "collect"
    /\ toolPresent[t]
    /\ events < MaxEvents
    /\ events' = events + 1
    /\ toolPresent' = [toolPresent EXCEPT ![t] = FALSE]
    /\ UNCHANGED <<configVars, timingVars, recompressVars,
                   mainVars, finished_futures, task, future, finished>>

\* ------------------------------------------------------- external commands
\* what the banner of the flac tool looks like on stderr
BannerText ==
    <<"flac", " ", "1.3.2", "\n",
      "Copyright", " ", "(C)", " ", "Xiph.Org", "\n">>

\* stderr of a failing "flac -t"
\* the banner, an empty line and an indented error line
BadHeaderStderr ==
    BannerText \o <<"\n", " ", "bad", " ", "header", " ", "\n">>

FlacStderrSamples == {<<>>, BannerText, BadHeaderStderr}

\* stdout of a succeeding "metaflac --show-md5sum"
Md5StdoutSamples ==
    { ZeroMd5 \o <<"\n">>,
      <<>>,
      <<"\n">>,
      Repeat("a", MD5_LEN) \o <<"\n">> }

\* What run_command does to the process it spawns, as the list of what
\* happened to the process so far.
\* subprocess.Popen(cmd): the child is spawned, or an exception is raised
\* and there is no child
Popen(found) == IF found THEN <<"spawn">> ELSE <<>>

\* process.communicate(timeout=timeout) returns: the child has ended by
\* itself and communicate has waited for it
Communicate(p) == p \o <<"exit", "wait">>

\* process.kill()
Kill(p) == Append(p, "kill")

\* leaving the with block without the wait of Popen.__exit__
PopenExitNoWait(p) == p

\* leaving the with block, by return or by an exception: Popen.__exit__ waits
\* for the child unless it has been waited for
PopenExit(p) ==
    IF p = <<>> \/ p[Len(p)] = "wait" THEN p ELSE Append(p, "wait")

\* an exception other than TimeoutExpired leaves communicate and the with
\* block
ProcAfterRaise == PopenExit(Popen(TRUE))

\* run_command: the process ran to its end within the timeout
ExitResults(tool) ==
    IF tool = "flac"
    THEN {[rc |-> 0, out |-> <<>>, err |-> BannerText,
           proc |-> PopenExit(Communicate(Popen(TRUE)))]}
         \cup {[rc |-> 1, out |-> <<>>, err |-> e,
                 proc |-> PopenExit(Communicate(Popen(TRUE)))] :
                   e \in FlacStderrSamples}
    ELSE {[rc |-> 0, out |-> o, err |-> <<>>,
           proc |-> PopenExit(Communicate(Popen(TRUE)))] :
             o \in Md5StdoutSamples}
         \cup {[rc |-> 1, out |-> <<>>, err |-> <<"ERROR">>,
                 proc |-> PopenExit(Communicate(Popen(TRUE)))]}

\* run_command: except subprocess.TimeoutExpired
TimedOut ==
    [rc |-> -1, out |-> <<>>, err |-> <<"Command timed out">>,
     proc |-> PopenExit(Kill(Popen(TRUE)))]

\* run_command: except FileNotFoundError
NotFound(tool) ==
    [rc |-> -1, out |-> <<>>, err |-> <<"Command not found: ", tool>>,
     proc |-> Popen(FALSE)]

\* fic.py run_command: except (OSError, subprocess.SubprocessError)
SubprocessError(kind) ==
    [rc |-> -1, out |-> <<>>, err |-> <<"Subprocess error: ">> \o ExcText(kind),
     proc |-> ProcAfterRaise]

\* what run_command can return for the tool in the current state
run_command(tool) ==
    IF toolPresent[tool]
    THEN ExitResults(tool) \cup {TimedOut}
    ELSE {NotFound(tool)}

\* the exceptions run_command turns into a return value by itself, besides
\* FileNotFoundError and TimeoutExpired: none in FIC.py, OSError and
\* SubprocessError in fic.py
RunCommandCatches(v, kind) == v = "fic" /\ kind = "os"


\* ------------------------------------------------------------- verify_flac
\* the except clause of verify_flac: FIC.py catches Exception, fic.py catches
\* (OSError, subprocess.SubprocessError)
VerifyCatches(v, kind) == v = "FIC" \/ kind = "os"

\* a last attempt recognised one iteration early
IsLastAttemptEarly(att) == att = max_retries - 1

\* attempt == max_retries
IsLastAttempt(att) == att = max_retries

\* clean_flac_error(stderr) or "Unknown FLAC error"
FlacErrorMsg(stderr) ==
    LET cleaned == clean_flac_error(stderr)
    IN  IF cleaned = <<>> THEN <<"Unknown FLAC error">> ELSE cleaned

\* only the empty checksum counts as none
NoMd5EmptyOnly(md5) == md5 = <<>>

\* not md5 or md5 == '0'*32
NoMd5(md5) == md5 = <<>> \/ md5 = ZeroMd5

\* A step of a call gives the call's next state and its future's.
\* The call goes on:
Continue(t) == [task |-> t, future |-> Pending]

\* The call returns res (or raises): the call is over, its future is done
Returned(t, res) == [task |-> [NewTask EXCEPT !.pc = "done"], future |-> res]

\* a sleep of half a second whatever the attempt
SleepFixed(t) ==
    Continue([t EXCEPT !.pc = "sleep", !.sleep = 1, !.backoff = @ + 1])

\* time.sleep(0.5 * (attempt + 1)), then the next iteration
Sleep(t) ==
    Continue([t EXCEPT !.pc = "sleep",
                       !.sleep = t.attempt + 1,
                       !.backoff = @ + t.attempt + 1])

\* the head of: for attempt in range(max_retries + 1), entered with index att;
\* past the last index the function returns what follows the loop
LoopHead(t, f, att) ==
    IF att <= max_retries
    THEN Continue([t EXCEPT !.pc = "precheck", !.attempt = att,
                            !.attempts = @ + 1])
    ELSE Returned(t, VerificationResult(f, "failed", t.last_error, NoneVal))

\* the result returned when is_file_accessible answers False
Inaccessible(f) ==
    VerificationResult(f, "failed", <<"File inaccessible or unreadable">>,
                       NoneVal)

\* a precheck failure handled like a failure of the reader: retried
AfterPrecheckRetried(t, f, accessible) ==
    IF ~accessible
    THEN IF IsLastAttempt(t.attempt) THEN Returned(t, Inaccessible(f))
         ELSE Sleep(t)
    ELSE Continue([t EXCEPT !.pc = "flac", !.flacCalls = @ + 1])

\* is_file_accessible(file_path), then the call of run_command for flac -t
AfterPrecheck(t, f, accessible) ==
    IF ~accessible
    THEN Returned(t, Inaccessible(f))
    ELSE Continue([t EXCEPT !.pc = "flac", !.flacCalls = @ + 1])

\* a timeout of flac -t retried like a timeout of the reader
FlacReturnRetryTimeout(t, f, r) ==
    IF r.rc # 0
    THEN IF r.err = <<"Command timed out">> /\ ~IsLastAttempt(t.attempt)
         THEN Sleep(t)
         ELSE Returned(t, VerificationResult(f, "failed", FlacErrorMsg(r.err),
                                             NoneVal))
    ELSE Continue([t EXCEPT !.pc = "metaflac", !.mdCalls = @ + 1])

\* a call that goes on to metaflac whatever flac -t returned
FlacReturnIgnoresStatus(t, f, r) ==
    Continue([t EXCEPT !.pc = "metaflac", !.mdCalls = @ + 1])

\* from the return of run_command(['flac', '-t', ..]) to the call of
\* run_command(['metaflac', '--show-md5sum', ..])
FlacReturn(t, f, r) ==
    IF r.rc # 0
    THEN Returned(t, VerificationResult(f, "failed", FlacErrorMsg(r.err), NoneVal))
    ELSE Continue([t EXCEPT !.pc = "metaflac", !.mdCalls = @ + 1])

\* the checksum read from stdout whatever the status of metaflac
Md5ReturnIgnoresStatus(t, f, r) ==
    IF NoMd5(Strip(r.out))
    THEN Returned(t, VerificationResult(f, "no_md5", NoneVal, NoneVal))
    ELSE Returned(t, VerificationResult(f, "passed", NoneVal, Strip(r.out)))

\* from the return of run_command(['metaflac', '--show-md5sum', ..]) on
Md5Return(t, f, r) ==
    IF r.rc # 0
    THEN IF IsLastAttempt(t.attempt)
         THEN Returned(t, VerificationResult(f, "failed",
                             <<"MD5 check failed">>, NoneVal))
         ELSE Sleep(t)
    ELSE IF NoMd5(Strip(r.out))
         THEN Returned(t, VerificationResult(f, "no_md5", NoneVal, NoneVal))
         ELSE Returned(t, VerificationResult(f, "passed", NoneVal, Strip(r.out)))

\* an exception of the given kind reaches the try block of verify_flac
HandleException(t, f, kind) ==
    IF VerifyCatches(variant, kind)
    THEN IF IsLastAttempt(t.attempt)
         THEN Returned(t, VerificationResult(f, "failed",
                             <<"System error: ">> \o ExcText(kind), NoneVal))
         ELSE Sleep([t EXCEPT !.last_error = ExcText(kind)])
    ELSE Returned(t, Raised(kind))

\* One iteration from the head of the loop to its first blocking call: the
\* loop head, then, when the body is entered, is_file_accessible, which
\* answers or raises (precheck is "ok", "inaccessible" or "raise")
Iterate(t, f, att, precheck) ==
    LET head == LoopHead(t, f, att)
    IN  IF head.task.pc # "precheck" THEN head
        ELSE IF precheck = "raise" THEN HandleException(head.task, f, "other")
        ELSE AfterPrecheck(head.task, f, precheck = "ok")

\* calls that keep last_error in a variable of the module: a step of one call
\* sets it for all of them
ApplyShared(f, step) ==
    /\ task' = [g \in Files |->
                  IF g = f THEN step.task
                  ELSE [task[g] EXCEPT !.last_error = step.task.last_error]]
    /\ future' = [future EXCEPT ![f] = step.future]
    /\ finished_futures' =
         IF step.future.state # "pending" /\ phase = "collect"
         THEN Append(finished_futures, f)
         ELSE finished_futures
    /\ finished' =
         IF step.future.state # "pending" /\ phase = "submitted"
         THEN Append(finished, f)
         ELSE finished

\* the step is taken by the call for file f; a future that is done is put on
\* the waiter of as_completed, if the main thread is in that loop
Apply(f, step) ==
    /\ task' = [task EXCEPT ![f] = step.task]
    /\ future' = [future EXCEPT ![f] = step.future]
    /\ finished_futures' =
         IF step.future.state # "pending" /\ phase = "collect"
         THEN Append(finished_futures, f)
         ELSE finished_futures
    /\ finished' =
         IF step.future.state # "pending" /\ phase = "submitted"
         THEN Append(finished, f)
         ELSE finished

\* a pool whose thread is free while the call it runs sleeps
RunningAwake == {f \in Files : task[f].pc \in {"flac", "metaflac"}}

\* the calls that occupy a thread of the pool
Running == {f \in Files : task[f].pc \in {"flac", "metaflac", "sleep"}}
Queued == {f \in Files : task[f].pc = "queued"}

\* a pool that starts a thread for every task of the queue
StartTaskUnbounded(f) ==
    /\ f \in Queued
    /\ \A g \in Queued : f <= g
    /\ \E accessible \in BOOLEAN :
        Apply(f, Iterate(task[f], f, 0,
                         IF accessible THEN "ok" ELSE "inaccessible"))
    /\ UNCHANGED <<configVars, timingVars, recompressVars,
                   toolPresent, mainVars, events>>

\* a pool thread takes the next task of the queue and calls verify_flac
StartTask(f) ==
    /\ f \in Queued
    /\ \A g \in Queued : f <= g
    /\ Cardinality(Running) < thread_count
    /\ \E accessible \in BOOLEAN :
        Apply(f, Iterate(task[f], f, 0,
                         IF accessible THEN "ok" ELSE "inaccessible"))
    /\ UNCHANGED <<configVars, timingVars, recompressVars,
                   toolPresent, mainVars, events>>

\* the sleep is over: the next iteration
Backoff(f) ==
    /\ f \in Files
    /\ task[f].pc = "sleep"
    /\ \E accessible \in BOOLEAN :
        Apply(f, Iterate(task[f], f, task[f].attempt + 1,
                         IF accessible THEN "ok" ELSE "inaccessible"))
    /\ UNCHANGED <<configVars, timingVars, recompressVars,
                   toolPresent, mainVars, events>>

\* an iteration in which is_file_accessible raises: it turns OSError,
\* PermissionError and UnicodeEncodeError into False itself, so only an
\* exception of another kind leaves it
PrecheckFault(f) ==
    /\ f \in Files
    /\ \/ /\ f \in Queued
          /\ \A g \in Queued : f <= g
          /\ Cardinality(Running) < thread_count
          /\ Apply(f, Iterate(task[f], f, 0, "raise"))
       \/ /\ task[f].pc = "sleep"
          /\ Apply(f, Iterate(task[f], f, task[f].attempt + 1, "raise"))
    /\ max_retries >= 0
    /\ events < MaxEvents
    /\ events' = events + 1
    /\ UNCHANGED <<configVars, timingVars, recompressVars,
                   toolPresent, mainVars>>

FlacTest(f) ==
    /\ f \in Files
    /\ task[f].pc = "flac"
    /\ \E r \in run_command("flac") : Apply(f, FlacReturn(task[f], f, r))
    /\ UNCHANGED <<configVars, timingVars, recompressVars,
                   toolPresent, mainVars, events>>

ShowMd5(f) ==
    /\ f \in Files
    /\ task[f].pc = "metaflac"
    /\ \E r \in run_command("metaflac") : Apply(f, Md5Return(task[f], f, r))
    /\ UNCHANGED <<configVars, timingVars, recompressVars,
                   toolPresent, mainVars, events>>

\* an exception other than FileNotFoundError and TimeoutExpired is raised
\* inside run_command: run_command returns it as an error or lets it through
\* to verify_flac
RunCommandRaises(t, f, kind) ==
    IF ~RunCommandCatches(variant, kind)
    THEN HandleException(t, f, kind)
    ELSE IF t.pc = "flac"
    THEN FlacReturn(t, f, SubprocessError(kind))
    ELSE Md5Return(t, f, SubprocessError(kind))

\* run_command meets an exception other than FileNotFoundError and
\* TimeoutExpired
RunCommandFault(f) ==
    /\ f \in Files
    /\ task[f].pc \in {"flac", "metaflac"}
    /\ events < MaxEvents
    /\ events' = events + 1
    /\ \E kind \in FaultKinds : Apply(f, RunCommandRaises(task[f], f, kind))
    /\ UNCHANGED <<configVars, timingVars, recompressVars,
                   toolPresent, mainVars>>

Next ==
    \/ CheckDependencies
    \/ FindFiles
    \/ Submit
    \/ AsCompleted
    \/ \E f \in Files : Accumulate(f)
    \/ Summary
    \/ Interrupt
    \/ Shutdown
    \/ \E t \in Tools : ToolRemoved(t)
    \/ \E f \in Files : StartTask(f)
    \/ \E f \in Files : FlacTest(f)
    \/ \E f \in Files : ShowMd5(f)
    \/ \E f \in Files : Backoff(f)
    \/ \E f \in Files : PrecheckFault(f)
    \/ \E f \in Files : RunCommandFault(f)

Spec == Init /\ [][Next]_vars


\* ------------------------------------------------- a run of three given files
\* A run with the default settings on a directory of three files: for a (file
\* 1) flac -t ends with 0 and metaflac prints a checksum, for b (file 2)
\* flac -t ends with 1 and the error "bad header" after its banner, for c
\* (file 3) flac -t ends with 0 and metaflac prints the checksum of zeros.
\* Every file is accessible, both tools are installed, nothing unexpected
\* happens.
ScenarioFiles == <<"a", "b", "c">>

\* pools of one, two and three threads
ScenarioCpuCounts == {1, 3, 4}

ScenarioInit ==
    /\ variant \in Variants
    /\ max_retries = MAX_RETRIES
    /\ toolPresent = [t \in Tools |-> TRUE]
    /\ phase = "preflight"
    /\ nfiles = 0
    /\ thread_count = 0
    /\ task = <<>>
    /\ future = <<>>
    /\ results = [passed |-> 0, failed |-> 0, no_md5 |-> 0]
    /\ failed_files = <<>>
    /\ no_md5_files = <<>>
    /\ yielded = {}
    /\ finished_futures = <<>>
    /\ summary = FALSE
    /\ interrupted = FALSE
    /\ exitStatus = NotExited
    /\ events = 0
    /\ preflight = "pending"
    /\ finished = <<>>
    /\ timeout = IF variant = "FIC" THEN FLAC_VERIFY_TIMEOUT ELSE DEFAULT_TIMEOUT
    /\ watch = NoWatch
    /\ tracker = NoTracker
    /\ rjob = <<>>
    /\ rmain = NoMain

\* find_files returns the three files
ScenarioFindFiles ==
    /\ phase = "discover"
    /\ nfiles' = Len(ScenarioFiles)
    /\ task' = [f \in 1..Len(ScenarioFiles) |-> NewTask]
    /\ future' = [f \in 1..Len(ScenarioFiles) |-> Pending]
    /\ phase' = "submit"
    /\ UNCHANGED <<configVars, timingVars, recompressVars,
                   interrupted, toolPresent, thread_count, results,
                   failed_files, no_md5_files, yielded, finished_futures,
                   summary, exitStatus, events, preflight, finished>>

\* the pool is created with the default ceiling and the files are submitted
ScenarioSubmit ==
    /\ phase = "submit"
    /\ \E cpu \in ScenarioCpuCounts :
        thread_count' = get_optimal_threads(MAX_THREADS, cpu)
    /\ task' = [f \in Files |-> [task[f] EXCEPT !.pc = "queued"]]
    /\ phase' = "submitted"
    /\ UNCHANGED <<configVars, timingVars, recompressVars,
                   interrupted, toolPresent, nfiles, future, results,
                   failed_files, no_md5_files, yielded, finished_futures,
                   summary, exitStatus, events, preflight, finished>>

\* what run_command returns for flac -t on the file
ScenarioFlac(f) ==
    IF ScenarioFiles[f] = "b"
    THEN [rc |-> 1, out |-> <<>>, err |-> BadHeaderStderr,
          proc |-> PopenExit(Communicate(Popen(TRUE)))]
    ELSE [rc |-> 0, out |-> <<>>, err |-> BannerText,
          proc |-> PopenExit(Communicate(Popen(TRUE)))]

\* what run_command returns for metaflac --show-md5sum on the file
ScenarioMd5(f) ==
    [rc |-> 0,
     out |-> IF ScenarioFiles[f] = "c" THEN ZeroMd5 \o <<"\n">>
             ELSE Repeat("a", MD5_LEN) \o <<"\n">>,
     err |-> <<>>,
     proc |-> PopenExit(Communicate(Popen(TRUE)))]

ScenarioStart(f) ==
    /\ f \in Queued
    /\ \A g \in Queued : f <= g
    /\ Cardinality(Running) < thread_count
    /\ Apply(f, Iterate(task[f], f, 0, "ok"))
    /\ UNCHANGED <<configVars, timingVars, recompressVars,
                   toolPresent, mainVars, events>>

ScenarioFlacTest(f) ==
    /\ f \in Files
    /\ task[f].pc = "flac"
    /\ Apply(f, FlacReturn(task[f], f, ScenarioFlac(f)))
    /\ UNCHANGED <<configVars, timingVars, recompressVars,
                   toolPresent, mainVars, events>>

ScenarioShowMd5(f) ==
    /\ f \in Files
    /\ task[f].pc = "metaflac"
    /\ Apply(f, Md5Return(task[f], f, ScenarioMd5(f)))
    /\ UNCHANGED <<configVars, timingVars, recompressVars,
                   toolPresent, mainVars, events>>

ScenarioNext ==
    \/ CheckDependencies
    \/ ScenarioFindFiles
    \/ ScenarioSubmit
    \/ AsCompleted
    \/ \E f \in Files : Accumulate(f)
    \/ Summary
    \/ \E f \in Files : ScenarioStart(f)
    \/ \E f \in Files : ScenarioFlacTest(f)
    \/ \E f \in Files : ScenarioShowMd5(f)

ScenarioSpec == ScenarioInit /\ [][ScenarioNext]_vars


\* ------------------------------------------- runs that nobody interrupts
\* The runs in which no KeyboardInterrupt arrives and every call of
\* run_command ends as Popen.communicate allows: the tool exits, or the
\* timeout expires and the process is killed. The tools found by the
\* preflight stay installed. An exception may still leave the precheck.
LiveNext ==
    \/ CheckDependencies
    \/ FindFiles
    \/ Submit
    \/ AsCompleted
    \/ \E f \in Files : Accumulate(f)
    \/ Summary
    \/ Shutdown
    \/ \E f \in Files : StartTask(f)
    \/ \E f \in Files : FlacTest(f)
    \/ \E f \in Files : ShowMd5(f)
    \/ \E f \in Files : Backoff(f)
    \/ \E f \in Files : PrecheckFault(f)

\* the main thread goes on while it has something to do
MainThreadRuns ==
    WF_vars(\/ CheckDependencies
            \/ FindFiles
            \/ Submit
            \/ AsCompleted
            \/ \E f \in Files : Accumulate(f)
            \/ Summary
            \/ Shutdown)

\* an idle thread of the pool takes the next task of the queue, and a thread
\* that runs a call goes on with it: the tool ends or is killed at the
\* timeout, and time.sleep returns
PoolThreadsRun ==
    \A f \in 1..MaxFiles :
        WF_vars(StartTask(f) \/ FlacTest(f) \/ ShowMd5(f) \/ Backoff(f))

LiveSpec == Init /\ [][LiveNext]_vars /\ MainThreadRuns /\ PoolThreadsRun


\* ------------------------------------------- one call seen by the clock
\* One iteration of the loop of verify_flac with the time its two
\* invocations take. run_command hands its timeout to
\* process.communicate(timeout=timeout), which counts from its own call:
\* it returns when the tool has ended and raises TimeoutExpired when the
\* tool has run for timeout seconds. Time is counted in thirds of a second,
\* so that timeout/3 seconds is a whole number.
Ticks(seconds) == 3 * seconds

\* the values of args.timeout: argparse takes any integer (type=int,
\* default 30)
TimeoutArgs == (0..MaxTimeoutArg) \cup {DEFAULT_TIMEOUT}

\* the seconds given to flac -t that the version can run with
Timeouts(v) == IF v = "FIC" THEN {FLAC_VERIFY_TIMEOUT} ELSE TimeoutArgs

\* the timeout of run_command(['flac', '-t', file_path], ..) when the
\* seconds for flac -t are t
StructuralTimeout(v, t) == Ticks(t)

\* the timeout of run_command(['metaflac', '--show-md5sum', file_path], ..)
\* when the seconds for flac -t are t: MD5_CHECK_TIMEOUT in FIC.py,
\* timeout/3 in fic.py
ChecksumTimeout(v, t) ==
    IF v = "FIC" THEN Ticks(MD5_CHECK_TIMEOUT) ELSE Ticks(t) \div 3

\* the checker itself before main has begun
CheckerNotStarted ==
    /\ toolPresent = [t \in Tools |-> TRUE]
    /\ phase = "preflight"
    /\ nfiles = 0
    /\ thread_count = 0
    /\ task = <<>>
    /\ future = <<>>
    /\ results = [passed |-> 0, failed |-> 0, no_md5 |-> 0]
    /\ failed_files = <<>>
    /\ no_md5_files = <<>>
    /\ yielded = {}
    /\ finished_futures = <<>>
    /\ summary = FALSE
    /\ interrupted = FALSE
    /\ exitStatus = NotExited
    /\ events = 0
    /\ preflight = "pending"
    /\ finished = <<>>

TimingInit ==
    /\ variant \in Variants
    /\ max_retries = MAX_RETRIES
    /\ timeout \in Timeouts(variant)
    /\ watch = NoWatch
    /\ CheckerNotStarted
    /\ tracker = NoTracker
    /\ rjob = <<>>
    /\ rmain = NoMain

\* run_command(['flac', '-t', file_path], timeout=..) calls communicate
CallFlac ==
    /\ watch.pc = "idle"
    /\ watch' = [watch EXCEPT !.pc = "flac",
                              !.flacLimit = StructuralTimeout(variant, timeout)]
    /\ UNCHANGED <<configVars, timeout, verifyVars, recompressVars>>

\* a third of a second passes while a tool runs within its timeout
Tick ==
    /\ \/ /\ watch.pc = "flac"
          /\ watch.flacTime < watch.flacLimit
          /\ watch' = [watch EXCEPT !.flacTime = @ + 1]
       \/ /\ watch.pc = "metaflac"
          /\ watch.md5Time < watch.md5Limit
          /\ watch' = [watch EXCEPT !.md5Time = @ + 1]
    /\ UNCHANGED <<configVars, timeout, verifyVars, recompressVars>>

\* flac -t ends within its timeout: with status 0, and then
\* run_command(['metaflac', '--show-md5sum', file_path], timeout=..) calls
\* communicate, or with another status, and then the call returns failed
FlacEnds ==
    /\ watch.pc = "flac"
    /\ \E rc \in {0, 1} :
         watch' = IF rc = 0
                  THEN [watch EXCEPT !.pc = "metaflac",
                                     !.md5Limit = ChecksumTimeout(variant, timeout)]
                  ELSE [watch EXCEPT !.pc = "flac failed"]
    /\ UNCHANGED <<configVars, timeout, verifyVars, recompressVars>>

\* communicate raises TimeoutExpired for flac -t: the process is killed and
\* the call returns failed
FlacTimesOut ==
    /\ watch.pc = "flac"
    /\ watch.flacTime >= watch.flacLimit
    /\ watch' = [watch EXCEPT !.pc = "flac timed out"]
    /\ UNCHANGED <<configVars, timeout, verifyVars, recompressVars>>

\* metaflac ends within its timeout
Md5Ends ==
    /\ watch.pc = "metaflac"
    /\ watch' = [watch EXCEPT !.pc = "metaflac ended"]
    /\ UNCHANGED <<configVars, timeout, verifyVars, recompressVars>>

\* communicate raises TimeoutExpired for metaflac: the process is killed
Md5TimesOut ==
    /\ watch.pc = "metaflac"
    /\ watch.md5Time >= watch.md5Limit
    /\ watch' = [watch EXCEPT !.pc = "metaflac timed out"]
    /\ UNCHANGED <<configVars, timeout, verifyVars, recompressVars>>

TimingNext ==
    \/ CallFlac
    \/ Tick
    \/ FlacEnds
    \/ FlacTimesOut
    \/ Md5Ends
    \/ Md5TimesOut

TimingSpec == TimingInit /\ [][TimingNext]_vars


\* ------------------------------------------------------- recompress.py
\* main from the creation of the tracker on, the calls of recompress_flac
\* in the threads of the pool, and the tracker they share. The checker
\* does not run and its configuration plays no part.
RecompressInit ==
    /\ variant = "FIC"
    /\ max_retries = MAX_RETRIES
    /\ timeout = FLAC_VERIFY_TIMEOUT
    /\ watch = NoWatch
    /\ CheckerNotStarted
    /\ tracker = NoTracker
    /\ rjob = <<>>
    /\ rmain = NoMain

\* ProgressTracker(total)
ProgressTracker(total) == [NoTracker EXCEPT !.total = total]

\* a recompress_flac call that has not begun: its position, the exception
\* it handles, how often it has called tracker.update, what it returned
NewCall == [pc |-> "queued", exc |-> "none", updates |-> 0, ret |-> "None"]

\* the ways subprocess.run(.., capture_output=True, check=True) ends: the
\* tool exits with 0; no executable (FileNotFoundError); it exits with
\* another status (CalledProcessError, its stderr bytes are UTF-8 or are
\* not); the executable may not be run (PermissionError, an OSError)
RunOutcomes == {"ok", "FileNotFoundError", "CalledProcessError",
                "CalledProcessError, stderr not UTF-8", "PermissionError"}

\* the calls a thread of the pool is running
RWorking == {f \in DOMAIN rjob : rjob[f].pc \notin {"queued", "returned", "raised"}}
\* the calls that have ended: returned a value or raised
REnded == {f \in DOMAIN rjob : rjob[f].pc \in {"returned", "raised"}}

\* the fields of the tracker after the assignments of update(success,
\* error_info), which it makes before it writes the status bar
update(t, success, error_info) ==
    [t EXCEPT !.progress = @ + 1,
              !.success = IF success THEN @ + 1 ELSE @,
              !.failed = IF success THEN @ ELSE @ + 1,
              !.errors = IF ~success /\ error_info # NoneVal /\ error_info # <<>>
                         THEN Append(@, error_info) ELSE @]

\* tracker.update(success, error_info) of call f from position `from`,
\* whole, under the lock: the assignments, then sys.stdout.write, which
\* raises BrokenPipeError when nobody reads stdout any more; the lock is
\* released either way. `caught` is the position after an exception of
\* update: the except Exception clause when update was called in the try
\* block, the end of the call when it was called in an except clause.
TrackerUpdate(f, success, error_info, caught) ==
    /\ tracker' = update(tracker, success, error_info)
    /\ rjob' = [rjob EXCEPT ![f] =
          IF rmain.stdout = "open"
          THEN [@ EXCEPT !.pc = "returned", !.updates = @ + 1,
                         !.ret = IF success THEN "True" ELSE "False"]
          ELSE [@ EXCEPT !.pc = caught, !.updates = @ + 1,
                         !.exc = "BrokenPipeError"]]

\* tracker = ProgressTracker(len(flac_files)); ThreadPoolExecutor(
\* max_workers=max_threads); executor.submit for every file. main returns
\* before this when no file was found, so total >= 1.
StartProcessing(n, k) ==
    /\ rmain.pc = "idle"
    /\ tracker' = ProgressTracker(n)
    /\ rjob' = [f \in 1..n |-> NewCall]
    /\ rmain' = [rmain EXCEPT !.pc = "result", !.max_threads = k, !.awaited = 1]
    /\ UNCHANGED <<configVars, timingVars, verifyVars>>

\* a free thread of the pool takes the next call from the work queue
WorkerTakes(f) ==
    /\ f \in DOMAIN rjob
    /\ rjob[f].pc = "queued"
    /\ \A g \in 1..(f - 1) : rjob[g].pc # "queued"
    /\ Cardinality(RWorking) < rmain.max_threads
    /\ rjob' = [rjob EXCEPT ![f].pc = "flac --version"]
    /\ UNCHANGED <<configVars, timingVars, verifyVars, tracker, rmain>>

\* subprocess.run(["flac", "--version"], ..) ends
FlacVersion(f, r) ==
    /\ f \in DOMAIN rjob
    /\ rjob[f].pc = "flac --version"
    /\ rjob' = [rjob EXCEPT ![f] =
          IF r = "ok" THEN [@ EXCEPT !.pc = "flac -f"]
          ELSE [@ EXCEPT !.pc = "except", !.exc = r]]
    /\ UNCHANGED <<configVars, timingVars, verifyVars, tracker, rmain>>

\* subprocess.run(["flac", "-<level>", "-f", file_path], ..) ends
FlacEncode(f, r) ==
    /\ f \in DOMAIN rjob
    /\ rjob[f].pc = "flac -f"
    /\ rjob' = [rjob EXCEPT ![f] =
          IF r = "ok" THEN [@ EXCEPT !.pc = "update(True)"]
          ELSE [@ EXCEPT !.pc = "except", !.exc = r]]
    /\ UNCHANGED <<configVars, timingVars, verifyVars, tracker, rmain>>

\* tracker.update(True); return True, the last statements of the try block
UpdateTrue(f) ==
    /\ f \in DOMAIN rjob
    /\ rjob[f].pc = "update(True)"
    /\ TrackerUpdate(f, TRUE, NoneVal, "except")
    /\ UNCHANGED <<configVars, timingVars, verifyVars, rmain>>

\* except FileNotFoundError: tracker.update(False, ..); return False
ExceptFileNotFoundError(f) ==
    /\ f \in DOMAIN rjob
    /\ rjob[f].pc = "except"
    /\ rjob[f].exc = "FileNotFoundError"
    /\ TrackerUpdate(f, FALSE, <<"The FLAC tool is not installed.">>, "raised")
    /\ UNCHANGED <<configVars, timingVars, verifyVars, rmain>>

\* except subprocess.CalledProcessError as e: e.stderr.decode() raises
\* UnicodeDecodeError for bytes that are not UTF-8, and an exception
\* raised in an except clause leaves the call; otherwise the message is
\* built, tracker.update(False, error_msg); return False
ExceptCalledProcessError(f) ==
    /\ f \in DOMAIN rjob
    /\ rjob[f].pc = "except"
    /\ \/ /\ rjob[f].exc = "CalledProcessError"
          /\ TrackerUpdate(f, FALSE, <<"Failed to process">>, "raised")
       \/ /\ rjob[f].exc = "CalledProcessError, stderr not UTF-8"
          /\ rjob' = [rjob EXCEPT ![f].pc = "raised",
                                  ![f].exc = "UnicodeDecodeError"]
          /\ UNCHANGED tracker
    /\ UNCHANGED <<configVars, timingVars, verifyVars, rmain>>

\* except Exception as e: tracker.update(False, ..); return False
ExceptException(f) ==
    /\ f \in DOMAIN rjob
    /\ rjob[f].pc = "except"
    /\ rjob[f].exc \in {"PermissionError", "BrokenPipeError"}
    /\ TrackerUpdate(f, FALSE, <<"Unexpected issue">>, "raised")
    /\ UNCHANGED <<configVars, timingVars, verifyVars, rmain>>

\* the reader of stdout goes away while the files are processed
StdoutCloses ==
    /\ rmain.pc \in {"result", "shutdown"}
    /\ rmain.stdout = "open"
    /\ rmain' = [rmain EXCEPT !.stdout = "closed"]
    /\ UNCHANGED <<configVars, timingVars, verifyVars, tracker, rjob>>

\* for future in futures: future.result(): main waits for the calls in
\* the order of submission; the result of a call that raised raises in
\* main and leaves the loop. After the last result the with block ends.
FutureResult ==
    /\ rmain.pc = "result"
    /\ rmain.awaited \in REnded
    /\ rmain' = [rmain EXCEPT
          !.pc = IF rjob[rmain.awaited].pc = "raised" THEN "shutdown"
                 ELSE IF rmain.awaited = tracker.total THEN "finished"
                 ELSE "result",
          !.awaited = IF rjob[rmain.awaited].pc = "raised"
                         \/ rmain.awaited = tracker.total
                      THEN @ ELSE @ + 1]
    /\ UNCHANGED <<configVars, timingVars, verifyVars, tracker, rjob>>

\* the with block is left by the exception: ThreadPoolExecutor.__exit__
\* is shutdown(wait=True), the submitted calls all run to their end, then
\* the exception leaves main
ExecutorExit ==
    /\ rmain.pc = "shutdown"
    /\ REnded = DOMAIN rjob
    /\ rmain' = [rmain EXCEPT !.pc = "raised"]
    /\ UNCHANGED <<configVars, timingVars, verifyVars, tracker, rjob>>

RecompressNext ==
    \/ \E n \in 1..MaxRecompress, k \in 1..MaxRecompress : StartProcessing(n, k)
    \/ \E f \in 1..MaxRecompress : WorkerTakes(f)
    \/ \E f \in 1..MaxRecompress, r \in RunOutcomes : FlacVersion(f, r)
    \/ \E f \in 1..MaxRecompress, r \in RunOutcomes : FlacEncode(f, r)
    \/ \E f \in 1..MaxRecompress : UpdateTrue(f)
    \/ \E f \in 1..MaxRecompress : ExceptFileNotFoundError(f)
    \/ \E f \in 1..MaxRecompress : ExceptCalledProcessError(f)
    \/ \E f \in 1..MaxRecompress : ExceptException(f)
    \/ StdoutCloses
    \/ FutureResult
    \/ ExecutorExit

RecompressSpec == RecompressInit /\ [][RecompressNext]_vars


\* --------------------------------------------------------------- properties
\* the iteration a call at the head of the retry loop is about to begin
NextAttempt(f) == IF task[f].pc = "queued" THEN 0 ELSE task[f].attempt + 1

\* the calls that stand at the head of the retry loop with an iteration left
AtLoopHead ==
    {f \in Files : task[f].pc \in {"queued", "sleep"}
                   /\ NextAttempt(f) <= max_retries}

\* the files of S whose future holds a result of the given status
Outcomes(S, status) ==
    {f \in S : future[f].state = "result" /\ future[f].status = status}

\* C1: when the run completes without an interrupt, at the time the summary
\* is produced passed + failed + no_md5 equals the number of files submitted
C1_CountersSumToFiles ==
    summary => results.passed + results.failed + results.no_md5 = nfiles

C1_Witness ==
    /\ summary
    /\ nfiles = MaxFiles
    /\ results.failed >= 1
    /\ results.no_md5 >= 1

\* C2: every verify_flac call that is over has yielded one outcome (passed,
\* failed or no_md5) carrying the path it was dispatched with, whatever fault
\* was raised in it
C2_EveryCallYieldsOutcome ==
    \A f \in Files :
        task[f].pc = "done" =>
            /\ future[f].state = "result"
            /\ future[f].file_path = f
            /\ future[f].status \in {"passed", "failed", "no_md5"}

\* a call that ended by raising: its future holds an exception, no outcome
C2_FaultEscapes ==
    \E f \in Files :
        /\ task[f].pc = "done"
        /\ future[f].state = "exception"
        /\ variant = "fic"

CleanedSample(err) ==
    IF err = BadHeaderStderr
    THEN <<"bad", " ", "header">>
    ELSE IF err \in {<<>>, BannerText} THEN <<"Unknown FLAC error">>
    ELSE err

\* C4: when flac -t exits nonzero or times out, verify_flac returns Failed
\* with the cleaned error at once, whatever retry budget remains: the call is
\* over, with no further attempt and no further external invocation
C4_StructuralFailureTerminal ==
    \A f \in Files :
        task[f].pc = "flac" =>
            \A r \in run_command("flac") :
                r.rc # 0 =>
                    LET step == FlacReturn(task[f], f, r)
                    IN  /\ step.task.pc = "done"
                        /\ step.future =
                             VerificationResult(f, "failed",
                                                CleanedSample(r.err), NoneVal)

\* flac -t timed out with retries left and the call ended Failed
C4_Witness ==
    \E f \in Files :
        /\ task[f].pc = "done"
        /\ future[f].state = "result"
        /\ future[f].status = "failed"
        /\ future[f].error = <<"Command timed out">>
        /\ max_retries > 0

\* C5: while a call waits for the reader, a failure of the reader (nonzero
\* exit, timeout, command not found) before the last attempt produces no
\* outcome and is retried, and on the last attempt returns Failed 'MD5 check
\* failed'; a call returns that outcome only from the reader's return in the
\* last of its max_retries + 1 attempts, which is the reader's
\* (max_retries + 1)-th invocation when every attempt reached it
C5_ReaderFailureRetried ==
    [][\A f \in Files :
         /\ task[f].pc = "metaflac" =>
              \A r \in run_command("metaflac") :
                  r.rc # 0 =>
                      LET step == Md5Return(task[f], f, r)
                      IN  IF task[f].attempt < max_retries
                          THEN step.future = Pending /\ step.task.pc = "sleep"
                          ELSE step.future =
                                 VerificationResult(f, "failed",
                                     <<"MD5 check failed">>, NoneVal)
         /\ (/\ future[f].state = "pending"
             /\ future'[f].state = "result"
             /\ future'[f].error = <<"MD5 check failed">>)
            => /\ task[f].pc = "metaflac"
               /\ task[f].attempt = max_retries
               /\ task[f].attempts = max_retries + 1
               /\ task[f].mdCalls <= max_retries + 1
               /\ task[f].mdCalls = task[f].attempts
                    => task[f].mdCalls = max_retries + 1
         /\ (/\ task[f].pc = "metaflac"
             /\ task[f].attempt < max_retries
             /\ future'[f].state = "result")
            => future'[f].status \in {"passed", "no_md5"}]_vars

\* the reader failed on every attempt of a call with retries
C5_Witness ==
    \E f \in Files :
        /\ task[f].pc = "done"
        /\ future[f].state = "result"
        /\ future[f].error = <<"MD5 check failed">>
        /\ max_retries = MAX_RETRIES

\* C6: a dispatched call never counts more than max_retries + 1 iterations
\* of its retry loop
C6_AttemptsBounded ==
    \A f \in Files :
        task[f].pc \in {"queued", "flac", "metaflac", "sleep"} =>
            task[f].attempts <= max_retries + 1

\* a call that made no attempt at all, with max_retries + 1 below zero: it
\* returned what follows the loop
C6_NoAttemptCall ==
    \E f \in Files :
        /\ task[f].pc = "done"
        /\ max_retries + 1 < 0
        /\ future[f] = VerificationResult(f, "failed", <<>>, NoneVal)

\* C7: when the reader exits 0 and its trimmed output is empty or 32 zeros
\* the call returns no_md5; no call ever passes with such a checksum
C7_ZeroChecksumIsNoMd5 ==
    \A f \in Files :
        /\ task[f].pc = "metaflac" =>
             \A r \in run_command("metaflac") :
                 (r.rc = 0 /\ Strip(r.out) \in {<<>>, ZeroMd5})
                 => Md5Return(task[f], f, r).future
                      = VerificationResult(f, "no_md5", NoneVal, NoneVal)
        /\ (future[f].state = "result" /\ future[f].status = "passed")
             => future[f].md5 \notin {<<>>, NoneVal, ZeroMd5}

\* a call ended no_md5 and another passed
C7_Witness ==
    \E f, g \in Files :
        /\ future[f] = VerificationResult(f, "no_md5", NoneVal, NoneVal)
        /\ future[g].state = "result"
        /\ future[g].status = "passed"

\* C8: a fault raised while one file is verified never aborts the run: the
\* main thread leaves the as_completed loop only on the interrupt or with
\* every file's outcome accumulated and the summary produced
C8_FaultNeverAbortsRun ==
    [][(phase = "collect" /\ phase' # "collect")
        => \/ phase' = "interrupted"
           \/ summary' /\ yielded' = Files]_vars

\* the run is aborted by one file's fault while the outcome of another file
\* has not been accumulated, and the run ends without a summary
C8_OutcomeNeverAccumulated ==
    /\ phase = "exit"
    /\ ~summary
    /\ \E f, g \in Files :
         /\ future[f].state = "exception"
         /\ f \in yielded
         /\ future[g].state = "result"
         /\ g \notin yielded

\* C9: whatever the order of completions, each outcome handed to the loop
\* has incremented exactly one counter exactly once and is on the list of its
\* kind, and at the summary the counts are the numbers of outcomes of each
\* kind that the calls generated
C9_CountsMatchOutcomes ==
    /\ results.passed = Cardinality(Outcomes(yielded, "passed"))
    /\ results.failed =
         Cardinality(Outcomes(yielded, "failed"))
         + Cardinality({f \in yielded : /\ future[f].state = "exception"
                                        /\ MainCatches(variant, future[f].exc)})
    /\ results.no_md5 = Cardinality(Outcomes(yielded, "no_md5"))
    /\ Len(failed_files) = results.failed
    /\ Len(no_md5_files) = results.no_md5
    /\ summary =>
         /\ results.passed = Cardinality(Outcomes(Files, "passed"))
         /\ results.failed = Cardinality(Outcomes(Files, "failed"))
         /\ results.no_md5 = Cardinality(Outcomes(Files, "no_md5"))

\* two workers ran at once, a later file was accumulated before an earlier
\* one, and both outcomes are in the final counts
C9_Witness ==
    /\ summary
    /\ thread_count >= 2
    /\ Len(no_md5_files) >= 2
    /\ no_md5_files[1] > no_md5_files[2]
    /\ results.no_md5 = Len(no_md5_files)

\* C10: when the preflight does not find flac the run exits with status 1
\* before discovery and dispatch: no file, no call of verify_flac, no summary
C10_NoFlacNoRun ==
    preflight = "flac missing" =>
        /\ phase = "exit"
        /\ exitStatus = 1
        /\ nfiles = 0
        /\ task = <<>>
        /\ future = <<>>
        /\ ~summary

C10_Witness ==
    /\ preflight = "flac missing"
    /\ ~toolPresent["flac"]
    /\ toolPresent["metaflac"]
    /\ exitStatus = 1

\* C11: in a run that reaches the summary the exit status is 1 when a Failed
\* outcome was accumulated and 0 when none was
C11_ExitStatusIffFailed ==
    summary =>
        /\ phase = "exit"
        /\ exitStatus \in {0, 1}
        /\ exitStatus # 0 <=> Outcomes(yielded, "failed") # {}
        /\ exitStatus # 0 <=> results.failed > 0

\* a completed run with a passed and a failed file exits with status 1
C11_Witness ==
    /\ summary
    /\ exitStatus = 1
    /\ Outcomes(yielded, "passed") # {}
    /\ Outcomes(yielded, "failed") # {}

\* the calls that are inside run_command, and the tool each one runs
InRunCommand == {f \in Files : task[f].pc \in {"flac", "metaflac"}}
ToolOf(f) == task[f].pc

\* no child, or a child that has been waited for
Reaped(p) == p = <<>> \/ p[Len(p)] = "wait"

\* the place of an event in the list, 0 when it is not there
Place(p, e) ==
    IF \E i \in 1..Len(p) : p[i] = e
    THEN CHOOSE i \in 1..Len(p) : p[i] = e
    ELSE 0

\* C12: whatever a call of run_command ends with (the tool's exit, the
\* timeout, command not found, another error returned or raised), the
\* process it spawned has been waited for when it returns; after a timeout
\* the process was killed first
C12_NoProcessLeft ==
    \A f \in InRunCommand :
        /\ \A r \in run_command(ToolOf(f))
                      \cup {TimedOut, NotFound(ToolOf(f))}
                      \cup {SubprocessError(k) : k \in FaultKinds} :
               /\ Reaped(r.proc)
               /\ r.err = <<"Command timed out">> =>
                    /\ Place(r.proc, "spawn") = 1
                    /\ Place(r.proc, "kill") = 2
                    /\ Place(r.proc, "wait") = 3
                    /\ Place(r.proc, "exit") = 0
        /\ Reaped(ProcAfterRaise)

\* a run in which a tool timed out and every call has returned
C12_Witness ==
    /\ \E f \in Files : future[f].state = "result"
                         /\ future[f].error = <<"Command timed out">>
    /\ \A f \in Files : task[f].pc = "done"
    /\ InRunCommand = {}

\* C13: when a run that was interrupted has returned, no call is inside
\* run_command, so no external process is running: every task has ended
C13_NoProcessAfterInterrupt ==
    (phase = "exit" /\ interrupted) =>
        /\ InRunCommand = {}
        /\ \A f \in Files : task[f].pc = "done" /\ future[f].state # "pending"

\* an interrupted run has returned and a file that was verified was never
\* taken from as_completed
C13_Witness ==
    /\ phase = "exit" /\ interrupted
    /\ \E f \in Files : future[f].state = "result" /\ f \notin yielded

\* C14: once the interrupt has been taken, no task that is still in the
\* queue of the pool is started
C14_NoStartAfterInterrupt ==
    [][phase = "interrupted" =>
         \A f \in Queued : task'[f].pc = "queued"]_vars

\* the interrupt has been taken while a task waits in the queue of the pool
C14_Witness ==
    /\ phase = "interrupted"
    /\ Queued # {}

\* C15: once the interrupt has been taken, no call of run_command goes on
\* to the end of its process or to its timeout: the run does not wait for
\* a process that is in flight
C15_NoWaitAfterInterrupt ==
    [][phase = "interrupted" =>
         \A f \in InRunCommand : task'[f] = task[f] /\ future'[f] = future[f]]_vars

\* the interrupt has been taken while flac or metaflac runs for a file
C15_Witness ==
    /\ phase = "interrupted"
    /\ InRunCommand # {}

\* C16: an interrupted run ends with an exit status that a run completed
\* with failed files does not have (that one ends with 1, see C11), and the
\* interrupt adds nothing to the failed count or list
C16_InterruptedIsDistinct ==
    (phase = "exit" /\ interrupted) =>
        /\ exitStatus # 1
        /\ results.failed = Cardinality(Outcomes(yielded, "failed"))
                               + Cardinality({f \in yielded :
                                     future[f].state = "exception"})
        /\ Len(failed_files) = results.failed

\* an interrupted run in which no file failed has returned with status 1
C16_Witness ==
    /\ phase = "exit" /\ interrupted
    /\ results.failed = 0 /\ failed_files = <<>>
    /\ exitStatus = 1

\* the files of a list of paths, and of the list of failed files
PathsOf(list) == {list[i] : i \in 1..Len(list)}
FailedPaths == {failed_files[i][1] : i \in 1..Len(failed_files)}

\* C17: a no_md5 outcome adds one to the no_md5 count and nothing to the
\* failed count, its file is in the no-checksum list and not in the failed
\* list, and a completed run with passed and no_md5 outcomes only exits
\* with status 0
C17_NoMd5IsNoFailure ==
    /\ results.no_md5 = Cardinality(Outcomes(yielded, "no_md5"))
    /\ results.failed =
         Cardinality(Outcomes(yielded, "failed"))
           + Cardinality({f \in yielded : /\ future[f].state = "exception"
                                          /\ MainCatches(variant, future[f].exc)})
    /\ Len(no_md5_files) = results.no_md5
    /\ PathsOf(no_md5_files) = Outcomes(yielded, "no_md5")
    /\ FailedPaths \cap Outcomes(yielded, "no_md5") = {}
    /\ (summary /\ yielded = Outcomes(yielded, "passed")
                              \cup Outcomes(yielded, "no_md5"))
          => exitStatus = 0

\* a completed run with a passed file and a file without checksum has exited
\* with status 0
C17_Witness ==
    /\ summary /\ exitStatus = 0
    /\ Outcomes(yielded, "no_md5") # {}
    /\ Outcomes(yielded, "passed") # {}
    /\ results.failed = 0 /\ results.no_md5 = 1

\* the smaller and the larger of two integers
Min(a, b) == IF a < b THEN a ELSE b
Max(a, b) == IF a > b THEN a ELSE b

\* C18: once the size of the pool has been computed, it is the value of
\* get_optimal_threads for a CPU count and a ceiling of the run, it lies
\* between 1 and that ceiling, it is min(ceiling, max(1, floor(3 * cpu / 4)))
\* for a detected CPU count and 1 for an undetected one
C18_PoolSizeInRange ==
    (nfiles > 0 /\ phase # "submit") =>
        \E cpu \in CpuCounts, max_threads \in MaxThreadsArgs(variant) :
            /\ thread_count = get_optimal_threads(max_threads, cpu)
            /\ cpu = 0 => thread_count = 1
            /\ cpu > 0 =>
                 /\ thread_count \in 1..max_threads
                 /\ thread_count = Min(max_threads, Max(1, (3 * cpu) \div 4))

\* fic.py has computed a pool size below 1 for its files and has exited with
\* status 1 without verifying any
C18_Witness ==
    /\ variant = "fic" /\ nfiles > 0
    /\ phase = "exit" /\ exitStatus = 1
    /\ thread_count <= 0
    /\ \A f \in Files : task[f].pc # "done"

\* what verify_flac does with a return value of run_command: it goes on to
\* another attempt, or the call is over
Retries(step) == step.future = Pending /\ step.task.pc = "sleep"

\* the return values of run_command for a tool that ran and ended with a
\* status other than 0
NonzeroExits(tool) == {r \in ExitResults(tool) : r.rc # 0}

\* C19: the return value of run_command for a missing executable differs
\* from the one for a timeout and from every one for a nonzero exit, and
\* verify_flac answers it with another message and another retry decision
\* than it answers a nonzero exit of the same tool
C19_NotFoundTreatedApart ==
    \A f \in InRunCommand :
        /\ NotFound(ToolOf(f)) \notin NonzeroExits(ToolOf(f)) \cup {TimedOut}
        /\ \A r \in NonzeroExits(ToolOf(f)) :
              LET onNotFound ==
                      IF ToolOf(f) = "flac"
                      THEN FlacReturn(task[f], f, NotFound("flac"))
                      ELSE Md5Return(task[f], f, NotFound("metaflac"))
                  onExit ==
                      IF ToolOf(f) = "flac"
                      THEN FlacReturn(task[f], f, r)
                      ELSE Md5Return(task[f], f, r)
              IN  /\ Retries(onNotFound) # Retries(onExit)
                  /\ onNotFound.future # onExit.future

\* metaflac has gone after the preflight and a call of it is under way
C19_Witness ==
    /\ preflight = "ok"
    /\ ~toolPresent["metaflac"]
    /\ \E f \in InRunCommand : ToolOf(f) = "metaflac"

\* how many entries the list of failed files has for a file
FailedEntries(f) ==
    Cardinality({i \in 1..Len(failed_files) : failed_files[i][1] = f})

\* C20: a call of flac or metaflac made when the tool has gone after the
\* preflight gets "command not found" from run_command, and verify_flac
\* answers it with a failed outcome or, for metaflac before the last
\* attempt, with another attempt, never with an exception; a failed outcome
\* taken by the loop is counted and listed once; the run is aborted only by
\* an exception of a task that the loop does not catch
C20_MissingToolIsFailed ==
    /\ \A f \in InRunCommand : ~toolPresent[ToolOf(f)] =>
          /\ run_command(ToolOf(f)) = {NotFound(ToolOf(f))}
          /\ \A r \in run_command(ToolOf(f)) :
                LET step == IF ToolOf(f) = "flac"
                            THEN FlacReturn(task[f], f, r)
                            ELSE Md5Return(task[f], f, r)
                IN  /\ step.future.state \in {"pending", "result"}
                    /\ step.future.state = "result" =>
                         step.future.status = "failed"
                    /\ step.future.state = "pending" =>
                         /\ ToolOf(f) = "metaflac"
                         /\ step.task.pc = "sleep"
                         /\ ~IsLastAttempt(task[f].attempt)
    /\ \A f \in Outcomes(yielded, "failed") : FailedEntries(f) = 1
    /\ results.failed = Len(failed_files)
    /\ phase = "aborted" =>
          \E f \in yielded : /\ future[f].state = "exception"
                             /\ ~MainCatches(variant, future[f].exc)

\* flac has gone after the preflight, its file has failed with "command not
\* found", and the run has ended with its summary and one failed file
C20_Witness ==
    /\ preflight = "ok" /\ ~toolPresent["flac"]
    /\ summary /\ exitStatus = 1
    /\ results.failed = 1
    /\ \E f \in Outcomes(yielded, "failed") :
          /\ future[f].error = FlacErrorMsg(NotFound("flac").err)
          /\ FailedEntries(f) = 1

\* C21: the completed run of the three files a, b, c has one passed, one
\* failed and one no_md5 file, the failed list is [(b, "bad header")] and
\* the no-checksum list is [c], in whatever order the tasks completed and
\* were taken by the loop
C21_ThreeFileReport ==
    summary =>
        /\ results = [passed |-> 1, failed |-> 1, no_md5 |-> 1]
        /\ failed_files = << <<2, <<"bad", " ", "header">> >> >>
        /\ no_md5_files = <<3>>
        /\ exitStatus = 1

\* the run of the three files has completed with a pool of three threads
C21_Witness ==
    /\ summary /\ nfiles = Len(ScenarioFiles)
    /\ thread_count = 3
    /\ results.passed = 1 /\ Len(failed_files) = 1 /\ Len(no_md5_files) = 1

\* the futures whose outcome the loop has accumulated: those it was handed,
\* but for one whose exception it does not catch
Accumulated ==
    {f \in yielded : \/ future[f].state = "result"
                     \/ MainCatches(variant, future[f].exc)}

C23_RetryAtChecksumOnly ==
    \A f \in Files :
        /\ task[f].attempts <= 1
        /\ task[f].flacCalls <= 1

\* a call is at its second checksum check, after a second precheck and a
\* second flac -t
C23_Witness ==
    \E f \in Files :
        /\ task[f].pc = "metaflac"
        /\ task[f].attempt = 1
        /\ task[f].mdCalls = 2
        /\ task[f].attempts = 2
        /\ task[f].flacCalls = 2

\* the outcome of a call whose last attempt met the fault
SystemError(f, kind) ==
    VerificationResult(f, "failed", <<"System error: ">> \o ExcText(kind),
                       NoneVal)

\* C24: an unexpected fault raised in an attempt before the last makes the
\* call sleep and try again, and one raised in the last attempt (attempt =
\* max_retries) ends the call as failed with "System error: ..." : for a
\* fault in the precheck of the attempt about to begin and for a fault
\* inside run_command, whatever the earlier attempts met
C24_FaultsShareBudget ==
    /\ \A f \in AtLoopHead :
          LET step == Iterate(task[f], f, NextAttempt(f), "raise")
          IN  IF NextAttempt(f) = max_retries
              THEN step.future = SystemError(f, "other")
              ELSE Retries(step)
    /\ \A f \in InRunCommand : \A kind \in FaultKinds :
          LET step == RunCommandRaises(task[f], f, kind)
          IN  IF IsLastAttempt(task[f].attempt)
              THEN step.future = SystemError(f, kind)
              ELSE Retries(step)

\* fic.py: an OSError raised inside run_command for flac -t has ended the
\* call as failed with the text of run_command, not as a system error
C24_Witness ==
    /\ variant = "fic"
    /\ \E f \in Files :
          /\ task[f].pc = "done"
          /\ future[f].state = "result" /\ future[f].status = "failed"
          /\ future[f].error = FlacErrorMsg(SubprocessError("os").err)

\* 1 + 2 + ... + n
Triangle(n) == (n * (n + 1)) \div 2

\* C25: a call sleeps only after a failed attempt k with 0 <= k <
\* max_retries, for k + 1 half seconds; what it has slept in all after its
\* n-th sleep is 1 + ... + n half seconds, at most max_retries *
\* (max_retries + 1) / 2; a call that sleeps has no outcome yet, and a call
\* that has its outcome does not sleep
C25_BackoffSchedule ==
    \A f \in Files :
        /\ task[f].pc = "sleep" =>
              /\ 0 <= task[f].attempt /\ task[f].attempt < max_retries
              /\ task[f].sleep = task[f].attempt + 1
              /\ task[f].backoff = Triangle(task[f].attempt + 1)
        /\ task[f].pc \in {"flac", "metaflac"} =>
              task[f].backoff = Triangle(task[f].attempt)
        /\ task[f].backoff <= Triangle(max_retries)
        /\ task[f].pc = "sleep" => future[f] = Pending
        /\ future[f] # Pending =>
              task[f].pc = "done" /\ task[f].sleep = 0 /\ task[f].backoff = 0

\* a call sleeps for the second time: two half seconds after attempt 1,
\* three in all
C25_Witness ==
    \E f \in Files :
        /\ task[f].pc = "sleep"
        /\ task[f].attempt = 1
        /\ task[f].sleep = 2
        /\ task[f].backoff = 3

\* C26: after every step the calls of verify_flac that are being executed
\* are at most as many as the threads of the pool, and once the pool has
\* been created its size stays what it is
C26_PoolSizeBoundsTasks ==
    [][/\ Cardinality(Running') <= Max(thread_count', 0)
       /\ phase \notin {"preflight", "discover", "submit"} =>
             thread_count' = thread_count]_vars

\* the one thread of the pool is busy and a task waits in the queue
C26_Witness ==
    /\ thread_count = 1
    /\ Cardinality(Running) = 1
    /\ Queued # {}

\* C27: when the summary is printed and the exit status computed, every
\* submitted call has ended and its outcome has been accumulated; after the
\* summary nothing is accumulated and the exit status stays
C27_SummaryAfterAllOutcomes ==
    [][/\ summary' =>
            /\ Accumulated' = Files'
            /\ \A f \in Files' : task'[f].pc = "done"
            /\ exitStatus' = IF results'.failed # 0 THEN 1 ELSE 0
       /\ summary =>
            /\ UNCHANGED <<results, failed_files, no_md5_files, yielded>>
            /\ exitStatus' = exitStatus]_vars

\* the summary of a run of MaxFiles files is printed, with passed files only
C27_Witness ==
    /\ summary /\ nfiles = MaxFiles
    /\ Accumulated = Files
    /\ results.passed = nfiles
    /\ exitStatus = 0

\* the list in which the loop puts the file of a finished future
ListOf(f) ==
    IF future[f].state = "exception"
    THEN IF MainCatches(variant, future[f].exc) THEN "failed_files" ELSE "none"
    ELSE IF future[f].status = "failed" THEN "failed_files"
    ELSE IF future[f].status = "passed" THEN "none"
    ELSE "no_md5_files"

\* the futures of the set that had finished before f did
FinishedBefore(f) ==
    {g \in Files : /\ Place(finished, g) > 0
                   /\ Place(finished, g) < Place(finished, f)}

\* C28 as stated: a file enters its list only when no file whose task
\* completed earlier is still to enter the same list, so that the entries
\* of a list are in the order in which their tasks completed
C28_ListsInCompletionOrder ==
    [][\A f \in yielded' \ yielded :
         Place(finished, f) > 0 =>
             \A g \in FinishedBefore(f) :
                 ListOf(f) = "none" \/ ListOf(g) # ListOf(f)]_vars

\* C28 amended: an entry is put at the end of its list when as_completed
\* hands out its future, and as_completed hands out first the futures that
\* had finished when it was called, in any order, and then the others in
\* the order in which their tasks completed
C28_ListsInHandoutOrder ==
    [][\A f \in yielded' \ yielded :
         /\ f \in InWaiter =>
               /\ FinishedEarly = {}
               /\ f = Head(finished_futures)
               /\ Place(finished, f) = 0
         /\ f \notin InWaiter =>
               /\ f \in FinishedEarly
               /\ Place(finished, f) > 0
         /\ failed_files' # failed_files =>
               /\ Len(failed_files') = Len(failed_files) + 1
               /\ SubSeq(failed_files', 1, Len(failed_files)) = failed_files
               /\ failed_files'[Len(failed_files')][1] = f
         /\ no_md5_files' # no_md5_files =>
               no_md5_files' = Append(no_md5_files, f)]_vars

\* as_completed has been called when two tasks had completed that both
\* failed, and it has handed out neither of their futures yet
C28_Witness ==
    /\ phase = "collect"
    /\ Len(finished) = 2
    /\ \A i \in 1..2 : ListOf(finished[i]) = "failed_files"

\* the report that the outcomes of the files give, whatever the order in
\* which they arrive: the counters and the entries of the two lists, as sets
ReportOf(S) ==
    [counts |-> [passed |-> Cardinality(Outcomes(S, "passed")),
                 failed |-> Cardinality(Outcomes(S, "failed")),
                 no_md5 |-> Cardinality(Outcomes(S, "no_md5"))],
     failed |-> {<<f, ErrorOrEmpty(future[f].error)>> :
                   f \in Outcomes(S, "failed")},
     no_md5 |-> Outcomes(S, "no_md5")]

\* C29: the final counters and the sets of entries of the failed and the
\* no-checksum list are determined by the outcomes of the files alone: they
\* are the same in whatever order the tasks completed and were taken, and
\* no entry is listed twice
C29_ReportIgnoresOrder ==
    summary =>
        /\ results = ReportOf(Files).counts
        /\ {failed_files[i] : i \in 1..Len(failed_files)} = ReportOf(Files).failed
        /\ PathsOf(no_md5_files) = ReportOf(Files).no_md5
        /\ Len(failed_files) = Cardinality(ReportOf(Files).failed)
        /\ Len(no_md5_files) = Cardinality(ReportOf(Files).no_md5)

\* a completed run of two files in a pool of two threads, in which the first
\* file failed and the second passed
C29_Witness ==
    /\ summary /\ nfiles = 2 /\ thread_count = 2
    /\ Outcomes(Files, "failed") = {1} /\ Outcomes(Files, "passed") = {2}
    /\ results.passed = 1 /\ results.failed = 1

\* whether step is a step of the call for file f: what the call does from
\* its present position for some answer of its own precheck or of its own
\* invocation of flac or metaflac
OwnStep(f, step) ==
    LET t == task[f]
    IN  \/ /\ t.pc = "new"
           /\ step = Continue([t EXCEPT !.pc = "queued"])
        \/ /\ t.pc \in {"queued", "sleep"}
           /\ \E p \in {"ok", "inaccessible", "raise"} :
                 step = Iterate(t, f, NextAttempt(f), p)
        \/ /\ t.pc = "flac"
           /\ \/ \E r \in ExitResults("flac") : step = FlacReturn(t, f, r)
              \/ step = FlacReturn(t, f, TimedOut)
              \/ step = FlacReturn(t, f, NotFound("flac"))
              \/ \E k \in FaultKinds : step = RunCommandRaises(t, f, k)
        \/ /\ t.pc = "metaflac"
           /\ \/ \E r \in ExitResults("metaflac") : step = Md5Return(t, f, r)
              \/ step = Md5Return(t, f, TimedOut)
              \/ step = Md5Return(t, f, NotFound("metaflac"))
              \/ \E k \in FaultKinds : step = RunCommandRaises(t, f, k)

\* C30: whatever step the run takes, the call for a file and its future
\* change only by a step of that call, which is determined by the call's
\* own state and the answer of its own precheck or tool invocation: the
\* other files, their answers and the scheduling have no part in it, so
\* the outcome of a file is a function of its own answers
C30_OutcomeDependsOnOwnAnswers ==
    [][\A f \in Files :
         (task'[f] # task[f] \/ future'[f] # future[f]) =>
             OwnStep(f, [task |-> task'[f], future |-> future'[f]])]_vars

\* two calls ran side by side in a pool of two threads in a run with one
\* abnormal event, and their outcomes differ
C30_Witness ==
    /\ nfiles = 2 /\ thread_count = 2
    /\ events = 1
    /\ \A f \in Files : task[f].pc = "done" /\ future[f].state = "result"
    /\ future[1].status = "passed"
    /\ future[2].status = "failed"


\* C31: in a run that is not interrupted and in which every invocation of a
\* tool exits or hits its timeout, once the files are submitted to a pool of
\* at least one thread with max_retries >= 0, every call of verify_flac
\* eventually returns an outcome and the run eventually prints the summary
C31_RunTerminates ==
    (phase = "submitted" /\ max_retries >= 0)
        ~> (summary /\ \A f \in Files : future[f].state = "result")

\* a run with a pool of at least one thread and max_retries >= 0 has ended
\* without interrupt and without summary: a call ended with an exception
C31_Witness ==
    /\ phase = "exit" /\ ~summary /\ ~interrupted
    /\ thread_count >= 1 /\ max_retries >= 0
    /\ \E f \in Files : future[f].state = "exception"
    /\ \A f \in Files : future[f].state # "pending"


\* C32: the timeout of the metaflac invocation counts from the start of that
\* invocation, however long flac -t ran before (metaflac is killed for its
\* timeout exactly when it has itself run for the whole of it), and it is
\* the same value whatever number of seconds flac -t is given
C32_IndependentBudgets ==
    /\ watch.pc = "metaflac timed out" => watch.md5Time = watch.md5Limit
    /\ watch.pc \in {"metaflac", "metaflac ended", "metaflac timed out"} =>
          \A t \in Timeouts(variant) : watch.md5Limit = ChecksumTimeout(variant, t)

\* fic.py with --timeout 2: flac -t ran for a second, then metaflac was
\* killed after two thirds of a second, while --timeout 1 gives metaflac one
\* third
C32_Witness ==
    /\ variant = "fic" /\ timeout = 2
    /\ watch.pc = "metaflac timed out"
    /\ watch.flacTime = Ticks(1)
    /\ watch.md5Time = 2
    /\ ChecksumTimeout(variant, 1) = 1


\* the step that the call for file f takes from task[f] to task'[f]
StepOf(f) == [task |-> task'[f], future |-> future'[f]]

\* C33: a call enters flac -t only in an iteration whose precheck answered
\* True, it invokes metaflac only from flac -t of the same iteration and
\* only when flac -t exited with 0, and it returns passed or no_md5 only
\* from metaflac of the same iteration and only when metaflac exited with 0;
\* no other answer of the tool would have taken the call there
C33_OutcomeFromOneAttempt ==
    [][\A f \in Files :
         /\ (task'[f].pc = "flac" /\ task'[f] # task[f]) =>
               /\ task[f].pc \in {"queued", "sleep"}
               /\ task'[f].attempt = NextAttempt(f)
               /\ StepOf(f) = Iterate(task[f], f, NextAttempt(f), "ok")
         /\ (task'[f].pc = "metaflac" /\ task'[f] # task[f]) =>
               /\ task[f].pc = "flac"
               /\ task'[f].attempt = task[f].attempt
               /\ task'[f].mdCalls = task[f].mdCalls + 1
               /\ \E r \in ExitResults("flac") :
                     r.rc = 0 /\ StepOf(f) = FlacReturn(task[f], f, r)
               /\ \A r \in run_command("flac") :
                     r.rc # 0 => FlacReturn(task[f], f, r).task.pc = "done"
         /\ (task'[f].pc # "done" /\ task'[f].mdCalls # task[f].mdCalls) =>
               task'[f].pc = "metaflac"
         /\ (future'[f] # future[f]
               /\ future'[f].status \in {"passed", "no_md5"}) =>
               /\ task[f].pc = "metaflac"
               /\ \E r \in ExitResults("metaflac") :
                     r.rc = 0 /\ StepOf(f) = Md5Return(task[f], f, r)
               /\ \A r \in run_command("metaflac") :
                     r.rc # 0 =>
                         Md5Return(task[f], f, r).future.status
                             \notin {"passed", "no_md5"}]_vars

\* a call has returned passed while another call is in metaflac of its third
\* iteration
C33_Witness ==
    /\ \E f \in Files : future[f].status = "passed"
    /\ \E f \in Files : task[f].pc = "metaflac" /\ task[f].attempt = 2


\* the calls that have an external process that runs: run_command has
\* spawned the tool and has not waited for it yet
LiveProcesses ==
    {f \in InRunCommand : ~Reaped(Popen(toolPresent[ToolOf(f)]))}

\* C34: a process that runs belongs to the one call that is inside
\* run_command for it, so a call has one process at most; every such call
\* occupies a thread of the pool, and no more processes run than the pool
\* has threads
C34_ProcessesWithinPool ==
    /\ LiveProcesses \subseteq Running
    /\ Cardinality(Running) <= Max(thread_count, 0)
    /\ Cardinality(LiveProcesses) <= Max(thread_count, 0)

\* in a pool of two threads flac -t runs for one file and metaflac for the
\* other
C34_Witness ==
    /\ thread_count = 2
    /\ LiveProcesses = {1, 2}
    /\ task[1].pc = "flac" /\ task[2].pc = "metaflac"


\* C35: every result is well-formed: a failed result has a reason that is
\* not empty and no checksum, a passed result has a checksum that is neither
\* empty nor 32 zeros and no reason, a no_md5 result has neither
C35_OutcomesWellFormed ==
    \A f \in Files :
        future[f].state = "result" =>
            /\ future[f].status \in {"passed", "failed", "no_md5"}
            /\ future[f].status = "failed" =>
                  /\ future[f].error \notin {NoneVal, <<>>}
                  /\ future[f].md5 = NoneVal
            /\ future[f].status = "passed" =>
                  /\ future[f].md5 \notin {NoneVal, <<>>, ZeroMd5}
                  /\ future[f].error = NoneVal
            /\ future[f].status = "no_md5" =>
                  /\ future[f].error = NoneVal
                  /\ future[f].md5 = NoneVal

\* fic.py with a negative --max-retries: the loop has no iteration and the
\* return after it gives a failed result with the empty last_error; the
\* loop has listed the file with an empty reason
C35_Witness ==
    /\ variant = "fic" /\ max_retries < 0
    /\ nfiles = 1
    /\ future[1].state = "result" /\ future[1].status = "failed"
    /\ future[1].error = <<>>
    /\ failed_files = <<<<1, <<>>>>>>


\* C36: recompress.py: the counters of the tracker agree after every
\* update (progress = success + failed), a recompress_flac call that has
\* ended has called tracker.update exactly once, whichever way it ended,
\* and once all calls have ended progress = total
C36_TrackerCountsEveryCall ==
    /\ tracker.progress = tracker.success + tracker.failed
    /\ \A f \in REnded : rjob[f].updates = 1
    /\ (rmain.pc # "idle" /\ REnded = DOMAIN rjob) =>
          tracker.progress = tracker.total

\* flac fails on the only file with a stderr that is not UTF-8: the call
\* has ended without an update and main has left by the exception
C36_Witness ==
    /\ Len(rjob) = 1
    /\ rmain.pc = "raised" /\ rmain.stdout = "open"
    /\ rjob[1].pc = "raised" /\ rjob[1].exc = "UnicodeDecodeError"
    /\ rjob[1].updates = 0
    /\ tracker.total = 1 /\ tracker.progress = 0

====
